---- MODULE Spec2Model ----
(***************************************************************************)
(* The Scheme lexer of src/lexer.rs: a cursor over the input text and the  *)
(* pull operation next_token.  A character is a one-character string, a    *)
(* String a sequence of characters, and Option<char>'s None the value None.*)
(***************************************************************************)
EXTENDS Integers, Sequences, FiniteSets, TLC

\* Longest input drawn from EnumChars (the test and spec inputs are longer).
MaxLen == 4
\* How many times the caller goes on calling next_token once EOF came back.
MaxEofCalls == 2

---------------------------------------------------------------------------
\* Characters

None == "None"

Lower == {"a", "b", "c", "d", "e", "f", "g", "h", "i", "j", "k", "l", "m",
          "n", "o", "p", "q", "r", "s", "t", "u", "v", "w", "x", "y", "z"}
Upper == {"A", "B", "C", "D", "E", "F", "G", "H", "I", "J", "K", "L", "M",
          "N", "O", "P", "Q", "R", "S", "T", "U", "V", "W", "X", "Y", "Z"}
\* char::is_alphabetic, char::is_numeric, char::is_whitespace on the
\* characters of the model
Alphabetic == Lower \cup Upper
Numeric == {"0", "1", "2", "3", "4", "5", "6", "7", "8", "9"}
Whitespace == {" ", "\n", "\t"}

EXTENDED_IDENT_CHARS ==
    {"!", "$", "%", "&", "*", "+", "-", ".", "/", ":", "<", "=", ">", "?",
     "@", "^", "_", "~"}

\* the character U+0060, which a TLA+ string cannot hold
GraveChar == "grave"

Punctuation == {"(", ")", "[", "]", "{", "}", "'", GraveChar, ";", "#", "|", "\"", "\\", ","}

Char == Alphabetic \cup Numeric \cup Whitespace \cup EXTENDED_IDENT_CHARS
            \cup Punctuation

is_valid_first_letter_ident(c) ==
    c \notin Numeric /\ (c \in Alphabetic \/ c \in EXTENDED_IDENT_CHARS)

\* mutant: the first-letter rule applied to every letter (digits refused)
is_identifier_char_no_digits(c) ==
    c \notin Numeric /\ (c \in Alphabetic \/ c \in EXTENDED_IDENT_CHARS)

is_identifier_char(c) ==
    (c \in Alphabetic \/ c \in Numeric) \/ c \in EXTENDED_IDENT_CHARS

---------------------------------------------------------------------------
\* Tokens

Tok(kind, lit, text) == [kind |-> kind, lit |-> lit, text |-> text]

Identifier(s) == Tok("Identifier", "", s)
Comment(s) == Tok("Comment", "", s)
BlockComment(s) == Tok("BlockComment", "", s)
Directive(s) == Tok("Directive", "", s)
OpenParen == Tok("OpenParen", "", <<>>)
CloseParen == Tok("CloseParen", "", <<>>)
OpenSquareParen == Tok("OpenSquareParen", "", <<>>)
CloseSquareParen == Tok("CloseSquareParen", "", <<>>)
OpenCurlyParen == Tok("OpenCurlyParen", "", <<>>)
CloseCurlyParen == Tok("CloseCurlyParen", "", <<>>)
Apost == Tok("Apost", "", <<>>)
Grave == Tok("Grave", "", <<>>)
OpenVec == Tok("OpenVec", "", <<>>)
OpenByteVec == Tok("OpenByteVec", "", <<>>)
Str(s) == [lit |-> "Str", text |-> s]
Boolean(s) == [lit |-> "Boolean", text |-> s]
Literal(k) == Tok("Literal", k.lit, k.text)
Error == Tok("Error", "", <<>>)
EOF == Tok("EOF", "", <<>>)

---------------------------------------------------------------------------
\* Cursor primitives.  chars is what the Chars iterator has left.

first(chars) == IF Len(chars) >= 1 THEN chars[1] ELSE None

second(chars) == IF Len(chars) >= 2 THEN chars[2] ELSE None

third(chars) == IF Len(chars) >= 3 THEN chars[3] ELSE None

bump(chars) ==
    IF chars = <<>> THEN [char |-> None, chars |-> chars]
    ELSE [char |-> Head(chars), chars |-> Tail(chars)]

\* predicate is the set of characters the closure accepts
RECURSIVE take_while_loop(_, _, _)
take_while_loop(chars, predicate, s) ==
    IF first(chars) # None /\ first(chars) \in predicate
    THEN take_while_loop(bump(chars).chars, predicate, Append(s, bump(chars).char))
    ELSE [s |-> s, chars |-> chars]

take_while(chars, predicate) == take_while_loop(chars, predicate, <<>>)

RECURSIVE eat_while(_, _)
eat_while(chars, predicate) ==
    IF first(chars) # None /\ first(chars) \in predicate
    THEN eat_while(bump(chars).chars, predicate)
    ELSE chars

\* str::trim
RECURSIVE trim_start(_)
trim_start(s) ==
    IF s # <<>> /\ Head(s) \in Whitespace THEN trim_start(Tail(s)) ELSE s

RECURSIVE trim_end(_)
trim_end(s) ==
    IF s # <<>> /\ s[Len(s)] \in Whitespace
    THEN trim_end(SubSeq(s, 1, Len(s) - 1)) ELSE s

trim(s) == trim_end(trim_start(s))

---------------------------------------------------------------------------
\* Sub-scanners.  Each takes the cursor and gives the token and the cursor
\* it leaves; panicked says the call unwound instead of returning.

Ret(token, chars) == [token |-> token, chars |-> chars, panicked |-> FALSE]

Panic(chars) == [token |-> Error, chars |-> chars, panicked |-> TRUE]

RECURSIVE identifier_loop(_, _)
identifier_loop(chars, content) ==
    IF first(chars) # None /\ is_identifier_char(first(chars))
    THEN identifier_loop(bump(chars).chars, Append(content, bump(chars).char))
    ELSE Ret(Identifier(content), chars)

identifier(chars, first_letter) == identifier_loop(chars, <<first_letter>>)

vector(chars) == Ret(OpenVec, bump(chars).chars)

bytevector(chars) == Ret(OpenByteVec, bump(bump(bump(chars).chars).chars).chars)

boolean(chars) ==
    LET r == take_while(chars, Whitespace)
        c == r.s
    IN  IF c = <<"t">> \/ c = <<"t", "r", "u", "e">> \/ c = <<"f">>
              \/ c = <<"f", "a", "l", "s", "e">>
        THEN Ret(Literal(Boolean(c)), r.chars)
        ELSE Ret(Error, r.chars)

\* mutant: the closing '|' is left in the input
pipe_identifier_no_bump(chars) ==
    LET r == take_while(chars, Char \ {"|"})
        content == (<<"|">> \o r.s) \o <<"|">>
    IN  Ret(Identifier(content), r.chars)

pipe_identifier(chars) ==
    LET r == take_while(chars, Char \ {"|"})
        content == (<<"|">> \o r.s) \o <<"|">>
    IN  Ret(Identifier(content), bump(r.chars).chars)

string_literal(chars) ==
    LET r == take_while(chars, Char \ Whitespace)
    IN  Ret(Literal(Str(r.s)), bump(r.chars).chars)

line_comment(chars) ==
    LET r == take_while(chars, Char \ {"\n"})
    IN  Ret(Comment(trim(r.s)), r.chars)

RECURSIVE block_comment_loop(_, _)
block_comment_loop(chars, content) ==
    IF first(chars) # "|" /\ second(chars) # "#"
    THEN IF bump(chars).char = None
         THEN [content |-> content, chars |-> chars, panicked |-> TRUE]
         ELSE block_comment_loop(bump(chars).chars, Append(content, bump(chars).char))
    ELSE [content |-> content, chars |-> chars, panicked |-> FALSE]

block_comment(chars) ==
    LET l == block_comment_loop(bump(chars).chars, <<>>)
    IN  IF l.panicked THEN Panic(l.chars)
        ELSE IF first(l.chars) = "|" /\ second(l.chars) = "#"
        THEN Ret(BlockComment(trim(l.content)), bump(bump(l.chars).chars).chars)
        ELSE Ret(Error, l.chars)

directive(chars) ==
    LET r == take_while(bump(chars).chars, Char \ Whitespace)
    IN  Ret(Directive(r.s), r.chars)

---------------------------------------------------------------------------
\* Top-level dispatch

\* mutant: the default arm gives EOF instead of Error
NoMatchAsEOF(chars) == Ret(EOF, chars)

NoMatch(chars) == Ret(Error, chars)

\* the match on (first_char, first, second, third), arms in source order
token_kind(first_char, chars) ==
    IF first_char = "(" THEN Ret(OpenParen, chars)
    ELSE IF first_char = ")" THEN Ret(CloseParen, chars)
    ELSE IF first_char = "[" THEN Ret(OpenSquareParen, chars)
    ELSE IF first_char = "]" THEN Ret(CloseSquareParen, chars)
    ELSE IF first_char = "{" THEN Ret(OpenCurlyParen, chars)
    ELSE IF first_char = "}" THEN Ret(CloseCurlyParen, chars)
    ELSE IF first_char = "'" THEN Ret(Apost, chars)
    ELSE IF first_char = GraveChar THEN Ret(Grave, chars)
    ELSE IF first_char = ";" THEN line_comment(chars)
    ELSE IF first_char = "#" /\ first(chars) = "|" THEN block_comment(chars)
    ELSE IF first_char = "#" /\ first(chars) = "!" THEN directive(chars)
    ELSE IF first_char = "#" /\ first(chars) \in {"t", "f"} THEN boolean(chars)
    ELSE IF first_char = "#" /\ first(chars) = "u" /\ second(chars) = "8"
               /\ third(chars) = "("
         THEN bytevector(chars)
    ELSE IF first_char = "#" /\ first(chars) = "(" THEN vector(chars)
    ELSE IF first_char = "|" THEN pipe_identifier(chars)
    ELSE IF is_valid_first_letter_ident(first_char) THEN identifier(chars, first_char)
    ELSE NoMatch(chars)

next_token(chars) ==
    LET b == bump(eat_while(chars, Whitespace))
    IN  IF b.char = None THEN Ret(EOF, b.chars)
        ELSE token_kind(b.char, b.chars)

---------------------------------------------------------------------------
\* Inputs

RECURSIVE Strings(_, _)
Strings(alphabet, n) ==
    IF n = 0 THEN {<<>>}
    ELSE LET shorter == Strings(alphabet, n - 1)
         IN  shorter \cup {Append(s, c) : s \in {t \in shorter : Len(t) = n - 1},
                                          c \in alphabet}

EnumChars == {"a", "1", ".", " ", "|", "#", "\"", "(", "t"}

\* the inputs of the tests of lexer.rs
TestInputs ==
    { <<>>,
      <<"(", "(", "(", "(", ")", ")", ")", ")">>,
      <<";", " ", "t", "h", "i", "s", " ", "i", "s", " ", "a", " ", "c", "o", "m", "m", "e", "n", "t">>,
      <<"+">>,
      <<"(", "+", " ", "v", "a", "r", "1", " ", "v", "a", "r", "2", ")">> }
TestIdents ==
    { <<".", ".", ".">>,
      <<"+">>,
      <<"+", "s", "o", "u", "p", "+">>,
      <<"<", "=", "?">>,
      <<"-", ">", "s", "t", "r", "i", "n", "g">>,
      <<"a", "3", "4", "k", "T", "M", "N", "s">>,
      <<"l", "a", "m", "b", "d", "a">>,
      <<"l", "i", "s", "t", "-", ">", "v", "e", "c", "t", "o", "r">>,
      <<"q">>,
      <<"V", "1", "7", "a">>,
      <<"|", "t", "w", "o", " ", "w", "o", "r", "d", "s", "|">>,
      <<"|", "t", "w", "o", " ", ";", "w", "o", "r", "d", "s", "|">>,
      <<"t", "h", "e", "-", "w", "o", "r", "d", "-", "r", "e", "c", "u", "r", "s", "i", "o", "n", "-", "h", "a", "s", "-", "m", "a", "n", "y", "-", "m", "e", "a", "n", "i", "n", "g", "s">> }
\* further inputs: literals, comments, openers, unterminated forms
SpecInputs ==
    { <<"#", "u", "8", "(">>,
      <<"#", "(">>,
      <<"\"", "a", "b", "c">>,
      <<"#", "|", "a", "b", "c">>,
      <<"#", "t">>,
      <<"#", "f">>,
      <<"#", "t", "r", "u", "e">>,
      <<"#", "f", "a", "l", "s", "e">>,
      <<"#", "t", "x">>,
      <<"#", "!", "f", "o", "l", "d", "-", "c", "a", "s", "e">>,
      <<"\"", "a", "b", "c", "\"">>,
      <<"\"", "a", " ", "b", "\\", "c", "\"">>,
      <<"|", "a", "b", "c">>,
      <<"|", "a", "b", "|", "c", "d">>,
      <<"#", "|", "a", "b", "c", "|", "#">>,
      <<"#", "|", " ", "a", " ", "b", " ", "|", "#", "(">>,
      <<"#", "|", "a", "#", "b", "|", "#">>,
      <<"#", "|", "a", "|", "b", "|", "#">>,
      <<"#", "|", "#", "|", "#">>,
      <<"[", "]", "{", "}", "'", GraveChar>>,
      <<";", "c", "\n", "(">>,
      <<" ", ".", " ">>,
      <<"(", "a", " ", ".", " ", "b", ")">>,
      <<"\t", "#", "(", " ", "1">> }

ExtendedInputs == {<<c>> : c \in EXTENDED_IDENT_CHARS}

Inputs == Strings(EnumChars, MaxLen) \cup TestInputs \cup TestIdents
              \cup ExtendedInputs \cup SpecInputs

---------------------------------------------------------------------------
\* The lexer and its caller

VARIABLES
    input,          \* the text given to Lexer::new
    len_remaining,  \* Lexer.len_remaining
    chars,          \* Lexer.chars: the input not yet consumed
    tokens,         \* the tokens next_token has returned, in order
    panicked        \* a call to next_token unwound

vars == <<input, len_remaining, chars, tokens, panicked>>

EofCount == Cardinality({i \in 1..Len(tokens) : tokens[i] = EOF})

\* Lexer::new(input)
Init ==
    /\ input \in Inputs
    /\ len_remaining = Len(input)
    /\ chars = input
    /\ tokens = <<>>
    /\ panicked = FALSE

\* one call of next_token by the caller
NextToken ==
    /\ ~panicked
    /\ EofCount < MaxEofCalls
    /\ LET r == next_token(chars)
       IN  /\ chars' = r.chars
           /\ panicked' = r.panicked
           /\ tokens' = IF r.panicked THEN tokens ELSE Append(tokens, r.token)
    /\ UNCHANGED <<input, len_remaining>>

Next == NextToken

Spec == Init /\ [][Next]_vars

TypeOK ==
    /\ input \in Seq(Char)
    /\ len_remaining = Len(input)
    /\ chars \in Seq(Char)
    /\ panicked \in BOOLEAN

---------------------------------------------------------------------------
\* Vocabulary of the properties, stated on the text itself

Last(s) == s[Len(s)]

\* the number of leading whitespace characters of s
WsLen(s) ==
    CHOOSE n \in 0..Len(s) :
        /\ \A i \in 1..n : s[i] \in Whitespace
        /\ n = Len(s) \/ s[n + 1] \notin Whitespace

\* where the next token starts: s without its leading whitespace
TokenStart(s) == SubSeq(s, WsLen(s) + 1, Len(s))

\* the maximal prefix of s made of characters outside stop
Until(s, stop) ==
    SubSeq(s, 1, CHOOSE n \in 0..Len(s) :
                     /\ \A i \in 1..n : s[i] \notin stop
                     /\ n = Len(s) \/ s[n + 1] \in stop)

Returned(t) == tokens' = Append(tokens, t) /\ ~panicked'

---------------------------------------------------------------------------
\* C1: once a call to next_token has returned EOF, every later call returns
\* EOF as well and leaves the cursor where it was.
C1_EofAbsorbing ==
    [][(\E i \in 1..Len(tokens) : tokens[i] = EOF)
          => (Returned(EOF) /\ chars' = chars)]_vars

\* a call returned EOF after real tokens, and the call after it has returned
C1_Witness ==
    /\ Len(tokens) >= 3
    /\ tokens[1] # EOF
    /\ tokens[Len(tokens) - 1] = EOF
    /\ Last(tokens) = EOF

\* C2: on every input the calls reach EOF: no call fails to return, each
\* token other than EOF has consumed at least one character, and EOF has
\* been returned once len(input)+1 calls have been made.
C2_EofWithinLenPlusOneCalls ==
    /\ ~panicked
    /\ Cardinality({i \in 1..Len(tokens) : tokens[i] # EOF})
           <= Len(input) - Len(chars)
    /\ Len(tokens) >= Len(input) + 1 => \E i \in 1..Len(tokens) : tokens[i] = EOF

UnterminatedString(s) ==
    /\ s # <<>>
    /\ s[1] = "\""
    /\ \A i \in 2..Len(s) : s[i] # "\""

UnterminatedBlockComment(s) ==
    /\ Len(s) >= 2
    /\ s[1] = "#" /\ s[2] = "|"
    /\ ~\E i \in 3..(Len(s) - 1) : s[i] = "|" /\ s[i + 1] = "#"

\* C3: an input that ends inside a string literal or inside a block comment
\* gives exactly one Error token and then EOF, and no call panics.
C3_UnterminatedGivesOneError ==
    (UnterminatedString(input) \/ UnterminatedBlockComment(input))
        => /\ ~panicked
           /\ Len(tokens) >= 1 => tokens[1] = Error
           /\ Len(tokens) >= 2 => tokens[2] = EOF

\* C4: a call that starts at '|' with no closing '|' in the rest of the
\* input returns Error, never an Identifier.
C4_UnterminatedPipeIsError ==
    [][LET s == TokenStart(chars)
       IN  (s # <<>> /\ s[1] = "|" /\ \A i \in 2..Len(s) : s[i] # "|")
               => Returned(Error)]_vars

PipeForm(s) == s # <<>> /\ s[1] = "|" /\ \E i \in 2..Len(s) : s[i] = "|"

\* the place of the closing '|' of a pipe form
PipeClose(s) == 1 + Len(Until(Tail(s), {"|"})) + 1

\* C5 as stated: a call at a terminated pipe form |s| returns Identifier(s),
\* the text between the pipes without them, and consumes the closing '|'.
C5_PipeIdentifierStripped ==
    [][LET s == TokenStart(chars)
       IN  PipeForm(s)
               => /\ Returned(Identifier(SubSeq(s, 2, PipeClose(s) - 1)))
                  /\ chars' = SubSeq(s, PipeClose(s) + 1, Len(s))]_vars

\* C5 amended: a call at a terminated pipe form |s| returns Identifier(|s|),
\* the text between the pipes verbatim with both pipes kept, and consumes
\* the closing '|', so that the next call starts right after it.
C5_PipeIdentifierKeepsPipes ==
    [][LET s == TokenStart(chars)
       IN  PipeForm(s)
               => /\ Returned(Identifier(SubSeq(s, 1, PipeClose(s))))
                  /\ chars' = SubSeq(s, PipeClose(s) + 1, Len(s))]_vars

\* |ab|cd has given |ab| and then cd
C5_Witness ==
    /\ input = <<"|", "a", "b", "|", "c", "d">>
    /\ Len(tokens) = 2
    /\ tokens[1] = Identifier(<<"|", "a", "b", "|">>)
    /\ tokens[2] = Identifier(<<"c", "d">>)

QuotedInput(s) ==
    /\ Len(s) >= 2
    /\ s[1] = "\"" /\ s[Len(s)] = "\""
    /\ \A i \in 2..(Len(s) - 1) : s[i] # "\""

\* C6: on an input "s" (s without a quote) the first call returns
\* Literal(Str(s)), the raw text between the quotes, and the second EOF.
C6_StringLiteral ==
    QuotedInput(input)
        => /\ ~panicked
           /\ Len(tokens) >= 1
                  => tokens[1] = Literal(Str(SubSeq(input, 2, Len(input) - 1)))
           /\ Len(tokens) >= 2 => tokens[2] = EOF

C7Extended ==
    {"!", "$", "%", "&", "*", "+", "-", ".", "/", ":", "<", "=", ">", "?",
     "@", "^", "_", "~"}

C7FirstChars == (Alphabetic \ Numeric) \cup C7Extended

C7IdentChars == Alphabetic \cup Numeric \cup C7Extended

\* the maximal run of identifier characters s starts with
IdentRun(s) == Until(s, Char \ C7IdentChars)

PlusVar1Var2 ==
    <<"(", "+", " ", "v", "a", "r", "1", " ", "v", "a", "r", "2", ")">>

PlusVar1Var2Tokens ==
    <<OpenParen, Identifier(<<"+">>), Identifier(<<"v", "a", "r", "1">>),
      Identifier(<<"v", "a", "r", "2">>), CloseParen>>

\* C7: a call that starts at a valid first identifier character returns
\* Identifier(t), t the maximal run of identifier characters from there, and
\* leaves the cursor right after the run (a lone '.' aside); so an input that
\* is one run of two or more characters gives [Identifier(input), EOF], and
\* "(+ var1 var2)" gives [OpenParen, +, var1, var2, CloseParen, EOF].
C7_IdentifierMaximalRun ==
    [][/\ LET s == TokenStart(chars)
          IN  (s # <<>> /\ s[1] \in C7FirstChars /\ IdentRun(s) # <<".">>)
                  => /\ Returned(Identifier(IdentRun(s)))
                     /\ chars' = SubSeq(s, Len(IdentRun(s)) + 1, Len(s))
       /\ (Len(input) >= 2 /\ input[1] \in C7FirstChars /\ IdentRun(input) = input)
              => \A i \in 1..Len(tokens') :
                     tokens'[i] = IF i = 1 THEN Identifier(input) ELSE EOF
       /\ input = PlusVar1Var2
              => \A i \in 1..Len(tokens') :
                     tokens'[i] = IF i <= 5 THEN PlusVar1Var2Tokens[i] ELSE EOF
      ]_vars

\* "(+ var1 var2)" has been lexed to its EOF
C7_Witness ==
    /\ input = PlusVar1Var2
    /\ Len(tokens) = 6
    /\ tokens[3] = Identifier(<<"v", "a", "r", "1">>)
    /\ tokens[6] = EOF
    /\ chars = <<>>

BoolSpellings ==
    {<<"t">>, <<"f">>, <<"t", "r", "u", "e">>, <<"f", "a", "l", "s", "e">>}

\* C8: a call that starts at '#' followed by 't' or 'f' returns a Boolean
\* literal exactly when the text up to the next whitespace or the end of the
\* input is #t, #f, #true or #false, and has then consumed all of it;
\* otherwise it returns Error.
C8_BooleanSpellings ==
    [][LET s == TokenStart(chars)
       IN  (Len(s) >= 2 /\ s[1] = "#" /\ s[2] \in {"t", "f"})
               => LET w == Until(Tail(s), Whitespace)
                  IN  IF w \in BoolSpellings
                      THEN /\ Len(tokens') = Len(tokens) + 1
                           /\ Last(tokens').kind = "Literal"
                           /\ Last(tokens').lit = "Boolean"
                           /\ ~panicked'
                           /\ chars' = SubSeq(s, Len(w) + 2, Len(s))
                      ELSE Returned(Error)]_vars

\* C9: no call to next_token returns Identifier(".").
C9_LoneDotNotIdentifier ==
    \A i \in 1..Len(tokens) : tokens[i] # Identifier(<<".">>)

ClosesAt(s, i) == s[i] = "|" /\ s[i + 1] = "#"

BlockForm(s) ==
    /\ Len(s) >= 4
    /\ s[1] = "#" /\ s[2] = "|"
    /\ \E i \in 3..(Len(s) - 1) : ClosesAt(s, i)

\* the place of the first closing |# of a block comment
BlockClose(s) ==
    CHOOSE i \in 3..(Len(s) - 1) :
        ClosesAt(s, i) /\ \A j \in 3..(i - 1) : ~ClosesAt(s, j)

\* C10: a call at #| c |#, c any text without the sequence |#, returns
\* BlockComment(trim(c)) and has consumed everything through the first |#.
C10_BlockComment ==
    [][LET s == TokenStart(chars)
       IN  BlockForm(s)
               => /\ Returned(BlockComment(trim(SubSeq(s, 3, BlockClose(s) - 1))))
                  /\ chars' = SubSeq(s, BlockClose(s) + 2, Len(s))]_vars

====
